---- MODULE Spec2Model ----
(***************************************************************************)
(* apinstall.py: a one-shot script that turns a Raspberry Pi into a        *)
(* wireless access point.  main() runs a fixed sequence of functions; each *)
(* function logs to setup.log and runs shell commands through run_command. *)
(*                                                                         *)
(* One step of the model is one statement of the script: a log_message     *)
(* call, a run_command call, an input() or the write of hostapd.conf.      *)
(* The outcome of every external command and every operator input is       *)
(* chosen by the environment.                                              *)
(*                                                                         *)
(* The log file is kept as the bag of its entries, each reduced to its     *)
(* level and to whether it carries a command's raw output; timestamps and  *)
(* message texts are left out.                                             *)
(***************************************************************************)
EXTENDS Bags, FiniteSets, Integers, Sequences, TLC

VARIABLES
    debug_mode,         \* args.debug, fixed at startup
    log,                \* setup.log: bag of [level, kind]
    cmds,               \* command lines handed to subprocess.check_output, in order
    last,               \* outcome and return value of the latest run_command call
    ip_forward,         \* a "sysctl -w net.ipv4.ip_forward=1" of this run has exited zero
    stopped,            \* services stopped by this run and not started since
    hostapd_conf,       \* /etc/hostapd/hostapd.conf: "original" or "rendered"
    pc,                 \* the statement of main() being executed
    i,                  \* the statement of the current function being executed
    status,             \* "running", "exit0" or "exit1"
    retry_attempts,     \* check_internet_connection: argument
    failure_callbacks,  \* check_internet_connection: argument
    cic,                \* check_internet_connection: position in the function
    probes,             \* check_internet_connection: probes run by this call
    k,                  \* check_internet_connection: index in failure_callbacks
    invoked,            \* check_internet_connection: callbacks invoked by this call
    result,             \* check_internet_connection: "none", "true", "false", "raised"
    d,                  \* diagnose_connection_issue: 0 not running, else its statement
    password,           \* prompt_for_ap_config: length of the password entered last
    prompts,            \* prompt_for_ap_config: password inputs read so far
    reboot,             \* prompt_for_reboot: the operator's answer
    now,                \* the wall clock, in ticks
    calls,              \* backup_file: calls made
    backups,            \* backup_file: the copies made, in order: [dest, source]
    ap,                 \* configure_hostapd: the arguments ssid, password, channel
    hostapd_config      \* configure_hostapd: the text it builds

vars == <<debug_mode, log, cmds, last, ip_forward, stopped, hostapd_conf, pc, i, status,
          retry_attempts, failure_callbacks, cic, probes, k, invoked, result, d,
          password, prompts, reboot, now, calls, backups, ap, hostapd_config>>

hostvars == <<cmds, last, ip_forward, stopped>>
cicvars == <<retry_attempts, failure_callbacks, cic, probes, k, invoked, result, d>>
inputvars == <<password, prompts, reboot>>
backupvars == <<now, calls, backups>>
rendervars == <<ap, hostapd_config>>

-----------------------------------------------------------------------------
(* Bounds *)

MaxAttempts == 3        \* retry_attempts of a stand-alone call is drawn from 0..MaxAttempts
MaxCallbacks == 2       \* longest failure_callbacks list of a stand-alone call
MaxPrompts == 2         \* password inputs the operator may get wrong
MaxPwLen == 9           \* longest password the operator types
MaxClock == 3           \* ticks the clock advances during the backups
TicksPerSecond == 2     \* instants the clock tells apart within one second
MaxBackups == 2         \* backup_file calls of one run
MaxStrLen == 2          \* longest ssid, password and channel given to the rendering

(* Program constants *)

MinPwLen == 8           \* while len(password) < 8
PrecheckAttempts == 1   \* main: check_internet_connection(retry_attempts=1, ...)
PostcheckAttempts == 3  \* main: check_internet_connection(retry_attempts=3, ...)

-----------------------------------------------------------------------------
(* What subprocess.check_output can do: return (exit status zero), raise   *)
(* CalledProcessError (non-zero exit status), or raise anything else       *)
(* (OSError when the shell cannot be spawned, UnicodeDecodeError when the  *)
(* output is not text).                                                    *)
Outcomes == {"zero", "nonzero", "raises"}

Levels == {"INFO", "ERROR", "DEBUG"}

\* Number of entries of a level in a log
Count(lg, level) ==
    CopiesIn([level |-> level, kind |-> "message"], lg)
      + CopiesIn([level |-> level, kind |-> "output"], lg)

\* Number of entries in a log
Size(lg) == BagCardinality(lg)

\* Number of entries carrying a command's raw output
Outputs(lg) ==
    CopiesIn([level |-> "INFO", kind |-> "output"], lg)
      + CopiesIn([level |-> "ERROR", kind |-> "output"], lg)
      + CopiesIn([level |-> "DEBUG", kind |-> "output"], lg)

log_message(lg, level, kind) ==
    lg (+) SetToBag({[level |-> level, kind |-> kind]})

run_command_failure_as_info(command, rc, lg) ==
    IF rc = "zero"
    THEN [ret |-> "true",
          log |-> IF debug_mode
                  THEN log_message(log_message(lg, "INFO", "message"), "INFO", "output")
                  ELSE log_message(lg, "INFO", "message")]
    ELSE IF rc = "nonzero"
    THEN [ret |-> "false", log |-> log_message(lg, "INFO", "message")]
    ELSE [ret |-> "raised", log |-> lg]

\* The record of what one call does: its return value ("raised" when an
\* exception leaves the function) and the log after it.
run_command(command, rc, lg) ==
    IF rc = "zero"
    THEN [ret |-> "true",
          log |-> IF debug_mode
                  THEN log_message(log_message(lg, "INFO", "message"), "INFO", "output")
                  ELSE log_message(lg, "INFO", "message")]
    ELSE IF rc = "nonzero"
    THEN [ret |-> "false", log |-> log_message(lg, "ERROR", "message")]
    ELSE [ret |-> "raised", log |-> lg]

-----------------------------------------------------------------------------
(* Command lines *)

PING == "ping -c 4 8.8.8.8"
IP_ADDR_SHOW == "ip addr show"

InstallCommands ==
    {"sudo apt-get install iptables-persistent",
     "apt-get update && apt-get upgrade -y",
     "apt-get install -y hostapd dnsmasq"}

ForwardingCommands ==
    {"sudo sysctl -w net.ipv4.ip_forward=1",
     "sysctl -w net.ipv4.ip_forward=1"}

MasqueradeCommands ==
    {"sudo iptables -t nat -A POSTROUTING -o eth0 -j MASQUERADE",
     "iptables -t nat -A POSTROUTING -o eth0 -j MASQUERADE"}

EnableStartCommands ==
    {"systemctl enable hostapd", "systemctl start hostapd",
     "systemctl enable dnsmasq", "systemctl start dnsmasq"}

RESTART_HOSTAPD == "systemctl restart hostapd"
REBOOT == "reboot"

\* The effect of a command on the host's forwarding switch
forwarding_after(command, rc) ==
    ip_forward \/ (command \in ForwardingCommands /\ rc = "zero")

\* The effect of a command on the services this run has stopped
stopped_after(command, rc) ==
    IF rc # "zero" THEN stopped
    ELSE CASE command = "systemctl stop hostapd" -> stopped \cup {"hostapd"}
           [] command = "systemctl stop dnsmasq" -> stopped \cup {"dnsmasq"}
           [] command \in {"systemctl start hostapd", RESTART_HOSTAPD} -> stopped \ {"hostapd"}
           [] command = "systemctl start dnsmasq" -> stopped \ {"dnsmasq"}
           [] OTHER -> stopped

-----------------------------------------------------------------------------
(* Statements of the straight-line functions.  guarded: the call is the    *)
(* condition of "if not run_command(...): sys.exit(1)".                    *)

Log(level) == [op |-> "log", level |-> level, command |-> "", guarded |-> FALSE]
Run(command, guarded) == [op |-> "run", level |-> "", command |-> command, guarded |-> guarded]
Write == [op |-> "write", level |-> "", command |-> "", guarded |-> FALSE]

install_iptables_body ==
    << Run("sudo apt-get install iptables-persistent", FALSE),
       Run("sudo iptables -t nat -A POSTROUTING -o eth0 -j MASQUERADE", FALSE),
       Run("sudo sh -c 'iptables-save > /etc/iptables.ipv4.nat'", FALSE),
       Run("sudo sed -i '/net.ipv4.ip_forward=1/s/^#//g' /etc/sysctl.conf", FALSE),
       Run("sudo sysctl -w net.ipv4.ip_forward=1", FALSE) >>

update_system_and_install_packages_body ==
    << Log("INFO"),
       Run("apt-get update && apt-get upgrade -y", TRUE),
       Log("INFO"),
       Run("apt-get install -y hostapd dnsmasq", TRUE),
       Run("systemctl stop hostapd", FALSE),
       Run("systemctl stop dnsmasq", FALSE),
       Run("systemctl disable hostapd", FALSE),
       Run("systemctl disable dnsmasq", FALSE) >>

ensure_ipv4_forwarding_body ==
    << Log("INFO"),
       Run("sysctl -w net.ipv4.ip_forward=1", TRUE),
       Run("sed -i '/net.ipv4.ip_forward=1/s/^#//g' /etc/sysctl.conf", FALSE) >>

setup_nat_routing_body ==
    << Log("INFO"),
       Run("iptables -t nat -A POSTROUTING -o eth0 -j MASQUERADE", TRUE),
       Run("sh -c 'iptables-save > /etc/iptables.ipv4.nat'", FALSE) >>

configure_hostapd_body ==
    << Log("INFO"),
       Write,
       Log("INFO"),
       Run(RESTART_HOSTAPD, FALSE) >>

enable_and_start_services_unguarded ==
    << Log("INFO"),
       Run("systemctl enable hostapd", TRUE),
       Run("systemctl start hostapd", FALSE),
       Run("systemctl enable dnsmasq", TRUE),
       Run("systemctl start dnsmasq", TRUE) >>

\* the loop over services = ["hostapd", "dnsmasq"], unrolled
enable_and_start_services_body ==
    << Log("INFO"),
       Run("systemctl enable hostapd", TRUE),
       Run("systemctl start hostapd", TRUE),
       Run("systemctl enable dnsmasq", TRUE),
       Run("systemctl start dnsmasq", TRUE) >>

-----------------------------------------------------------------------------
(* Execution of one statement of a straight-line function.                 *)
(* catches: the body is inside "try: ... except Exception: log ERROR;      *)
(* sys.exit(1)".  An exception nothing catches ends the interpreter with   *)
(* a traceback and exit status 1.                                          *)

Return(body, next) ==
    IF i < Len(body)
    THEN /\ i' = i + 1
         /\ pc' = pc
    ELSE /\ i' = 1
         /\ pc' = next

Exit1 ==
    /\ status' = "exit1"
    /\ UNCHANGED <<pc, i>>

Statement(body, catches, next) ==
    /\ status = "running"
    /\ i \in DOMAIN body
    /\ UNCHANGED <<debug_mode, cicvars, inputvars, backupvars, rendervars>>
    /\ LET s == body[i] IN
       CASE s.op = "log" ->
              /\ log' = log_message(log, s.level, "message")
              /\ UNCHANGED <<hostvars, hostapd_conf, status>>
              /\ Return(body, next)
         [] s.op = "write" ->
              \E ok \in BOOLEAN :
                 /\ UNCHANGED hostvars
                 /\ IF ok
                    THEN /\ hostapd_conf' = "rendered"
                         /\ UNCHANGED <<log, status>>
                         /\ Return(body, next)
                    ELSE /\ log' = IF catches THEN log_message(log, "ERROR", "message") ELSE log
                         /\ UNCHANGED hostapd_conf
                         /\ Exit1
         [] s.op = "run" ->
              \E rc \in Outcomes :
                 LET r == run_command(s.command, rc, log) IN
                 /\ cmds' = Append(cmds, s.command)
                 /\ last' = [rc |-> rc, ret |-> r.ret]
                 /\ ip_forward' = forwarding_after(s.command, rc)
                 /\ stopped' = stopped_after(s.command, rc)
                 /\ UNCHANGED hostapd_conf
                 /\ IF r.ret = "raised"
                    THEN /\ log' = IF catches THEN log_message(r.log, "ERROR", "message") ELSE r.log
                         /\ Exit1
                    ELSE IF s.guarded /\ r.ret = "false"
                    THEN /\ log' = r.log
                         /\ Exit1
                    ELSE /\ log' = r.log
                         /\ UNCHANGED status
                         /\ Return(body, next)

install_iptables ==
    /\ pc = "install_iptables"
    /\ Statement(install_iptables_body, TRUE, "precheck")

update_system_and_install_packages ==
    /\ pc = "update_system_and_install_packages"
    /\ Statement(update_system_and_install_packages_body, FALSE, "ensure_ipv4_forwarding")

ensure_ipv4_forwarding ==
    /\ pc = "ensure_ipv4_forwarding"
    /\ Statement(ensure_ipv4_forwarding_body, FALSE, "setup_nat_routing")

setup_nat_routing ==
    /\ pc = "setup_nat_routing"
    /\ Statement(setup_nat_routing_body, FALSE, "prompt_for_ap_config")

configure_hostapd ==
    /\ pc = "configure_hostapd"
    /\ Statement(configure_hostapd_body, TRUE, "enable_and_start_services")

enable_and_start_services ==
    /\ pc = "enable_and_start_services"
    /\ Statement(enable_and_start_services_body, FALSE, "recheck")

-----------------------------------------------------------------------------
(* prompt_for_ap_config: the operator types an SSID, a password (asked     *)
(* again while it is shorter than 8 characters) and a channel.  Only the   *)
(* length of the password decides anything.                                *)

\* The lengths the operator may type: after MaxPrompts inputs only valid ones.
PasswordInputs ==
    IF prompts < MaxPrompts THEN 0..MaxPwLen ELSE MinPwLen..MaxPwLen

password_too_short_off_by_one(p) == p < MinPwLen - 1

password_too_short_always(p) == TRUE

\* "while len(password) < 8"
password_too_short(p) == p < MinPwLen

\* prompts counts the inputs up to one past the cap
counted(n) == IF n <= MaxPrompts THEN n + 1 ELSE n

prompt_for_ap_config ==
    /\ pc = "prompt_for_ap_config"
    /\ status = "running"
    /\ UNCHANGED <<debug_mode, log, hostvars, hostapd_conf, status, cicvars, reboot,
                   backupvars, rendervars>>
    /\ \/ /\ i = 1
          /\ \E p \in PasswordInputs : password' = p
          /\ prompts' = counted(prompts)
          /\ i' = 2
          /\ pc' = pc
       \/ /\ i = 2
          /\ password_too_short(password)
          /\ \E p \in PasswordInputs : password' = p
          /\ prompts' = counted(prompts)
          /\ UNCHANGED <<pc, i>>
       \/ /\ i = 2
          /\ ~password_too_short(password)
          /\ pc' = "configure_hostapd"
          /\ i' = 1
          /\ UNCHANGED <<password, prompts>>

-----------------------------------------------------------------------------
(* prompt_for_reboot *)

Answers == {"yes", "y", "YES", "Yes", "yEs", "Y", "no", "n", "NO", "", "yes please"}

\* str.lower on the answers above
lower(a) ==
    CASE a \in {"yes", "YES", "Yes", "yEs"} -> "yes"
      [] a \in {"y", "Y"} -> "y"
      [] a \in {"no", "NO"} -> "no"
      [] OTHER -> a

affirmative_unless_no(a) == lower(a) \notin {"no", "n"}

\* "if reboot.lower() in ['yes', 'y']"
affirmative(a) == lower(a) \in {"yes", "y"}

prompt_for_reboot ==
    /\ pc = "prompt_for_reboot"
    /\ status = "running"
    /\ UNCHANGED <<debug_mode, hostapd_conf, cicvars, password, prompts, backupvars, rendervars>>
    /\ \/ /\ i = 1
          /\ \E a \in Answers : reboot' = a
          /\ i' = 2
          /\ UNCHANGED <<log, hostvars, pc, status>>
       \/ /\ i = 2
          /\ log' = log_message(log, "INFO", "message")
          /\ IF affirmative(reboot)
             THEN /\ i' = 3
                  /\ pc' = pc
             ELSE /\ i' = 1
                  /\ pc' = "complete"
          /\ UNCHANGED <<hostvars, status, reboot>>
       \/ /\ i = 3
          /\ \E rc \in Outcomes :
                LET r == run_command(REBOOT, rc, log) IN
                /\ cmds' = Append(cmds, REBOOT)
                /\ last' = [rc |-> rc, ret |-> r.ret]
                /\ ip_forward' = forwarding_after(REBOOT, rc)
                /\ stopped' = stopped_after(REBOOT, rc)
                /\ log' = r.log
                /\ IF r.ret = "raised"
                   THEN Exit1
                   ELSE /\ i' = 1
                        /\ pc' = "complete"
                        /\ UNCHANGED status
          /\ UNCHANGED reboot

-----------------------------------------------------------------------------
(* check_internet_connection(retry_attempts, failure_callbacks) and the    *)
(* callbacks.  A callback is any callable: the script's own                *)
(* diagnose_connection_issue, or one that returns, or one that raises.     *)

DIAGNOSE == "diagnose_connection_issue"
Callbacks == {DIAGNOSE, "returns", "raises"}

probe_succeeded_inverted(ret) == ret = "false"

\* "if run_command(...): return True"
probe_succeeded(ret) == ret = "true"

\* "for _ in range(retry_attempts)": another iteration is due
more_attempts(done, attempts) == done < attempts

check_internet_connection ==
    /\ status = "running"
    /\ d = 0
    /\ UNCHANGED <<debug_mode, hostapd_conf, pc, i, status, retry_attempts,
                   failure_callbacks, inputvars, backupvars, rendervars>>
    /\ \/ /\ cic = "start"
          /\ log' = log_message(log, "INFO", "message")
          /\ cic' = "loop"
          /\ UNCHANGED <<hostvars, probes, k, invoked, result, d>>
       \/ /\ cic = "loop"
          /\ more_attempts(probes, retry_attempts)
          /\ \E rc \in Outcomes :
                LET r == run_command(PING, rc, log) IN
                /\ cmds' = Append(cmds, PING)
                /\ last' = [rc |-> rc, ret |-> r.ret]
                /\ ip_forward' = forwarding_after(PING, rc)
                /\ stopped' = stopped_after(PING, rc)
                /\ log' = r.log
                /\ probes' = probes + 1
                /\ IF r.ret = "raised"
                   THEN /\ result' = "raised"
                        /\ cic' = "returned"
                   ELSE IF probe_succeeded(r.ret)
                   THEN /\ result' = "true"
                        /\ cic' = "returned"
                   ELSE UNCHANGED <<result, cic>>
          /\ UNCHANGED <<k, invoked, d>>
       \/ /\ cic = "loop"
          /\ ~more_attempts(probes, retry_attempts)
          /\ log' = log_message(log, "INFO", "message")
          /\ cic' = "callbacks"
          /\ UNCHANGED <<hostvars, probes, k, invoked, result, d>>
       \/ /\ cic = "callbacks"
          /\ k \in DOMAIN failure_callbacks
          /\ invoked' = Append(invoked, k)
          /\ k' = k + 1
          /\ UNCHANGED <<log, hostvars, probes>>
          /\ d' = IF failure_callbacks[k] = DIAGNOSE THEN 1 ELSE 0
          /\ IF failure_callbacks[k] = "raises"
             THEN /\ result' = "raised"
                  /\ cic' = "returned"
             ELSE UNCHANGED <<result, cic>>
       \/ /\ cic = "callbacks"
          /\ k \notin DOMAIN failure_callbacks
          /\ result' = "false"
          /\ cic' = "returned"
          /\ UNCHANGED <<log, hostvars, probes, k, invoked, d>>

\* Runs while check_internet_connection waits in "callback()".  An exception
\* of run_command leaves diagnose_connection_issue and then
\* check_internet_connection, which catches nothing.
diagnose_connection_issue ==
    /\ status = "running"
    /\ UNCHANGED <<debug_mode, hostapd_conf, pc, i, status, retry_attempts,
                   failure_callbacks, probes, k, invoked, inputvars, backupvars, rendervars>>
    /\ \/ /\ d = 1
          /\ log' = log_message(log, "INFO", "message")
          /\ d' = 2
          /\ UNCHANGED <<hostvars, cic, result>>
       \/ /\ d = 2
          /\ \E rc \in Outcomes :
                LET r == run_command(IP_ADDR_SHOW, rc, log) IN
                /\ cmds' = Append(cmds, IP_ADDR_SHOW)
                /\ last' = [rc |-> rc, ret |-> r.ret]
                /\ ip_forward' = forwarding_after(IP_ADDR_SHOW, rc)
                /\ stopped' = stopped_after(IP_ADDR_SHOW, rc)
                /\ log' = r.log
                /\ d' = 0
                /\ IF r.ret = "raised"
                   THEN /\ result' = "raised"
                        /\ cic' = "returned"
                   ELSE UNCHANGED <<result, cic>>

-----------------------------------------------------------------------------
(* main *)

\* The call check_internet_connection(attempts, callbacks)
Call(attempts, callbacks) ==
    /\ retry_attempts' = attempts
    /\ failure_callbacks' = callbacks
    /\ cic' = "start"
    /\ probes' = 0
    /\ k' = 1
    /\ invoked' = <<>>
    /\ result' = "none"
    /\ d' = 0

main ==
    /\ status = "running"
    /\ UNCHANGED <<debug_mode, hostvars, hostapd_conf, inputvars, backupvars, rendervars>>
    /\ \/ /\ pc = "start"
          /\ log' = log_message(log, "INFO", "message")
          /\ pc' = "install_iptables"
          /\ i' = 1
          /\ UNCHANGED <<status, cicvars>>
       \/ /\ pc = "precheck"
          /\ cic = "idle"
          /\ Call(PrecheckAttempts, <<DIAGNOSE>>)
          /\ UNCHANGED <<log, pc, i, status>>
       \/ /\ pc = "precheck"
          /\ cic = "returned"
          /\ IF result = "raised"
             THEN /\ Exit1
                  /\ UNCHANGED <<log, cicvars>>
             ELSE /\ pc' = "update_system_and_install_packages"
                  /\ cic' = "idle"
                  /\ UNCHANGED <<log, i, status, retry_attempts, failure_callbacks,
                                 probes, k, invoked, result, d>>
       \/ /\ pc = "recheck"
          /\ log' = log_message(log, "INFO", "message")
          /\ Call(PostcheckAttempts, <<DIAGNOSE>>)
          /\ pc' = "postcheck"
          /\ UNCHANGED <<i, status>>
       \/ /\ pc = "postcheck"
          /\ cic = "returned"
          /\ IF result = "raised"
             THEN /\ Exit1
                  /\ UNCHANGED <<log, cicvars>>
             ELSE /\ log' = IF result = "false"
                            THEN log_message(log, "INFO", "message")
                            ELSE log
                  /\ pc' = "prompt_for_reboot"
                  /\ cic' = "idle"
                  /\ UNCHANGED <<i, status, retry_attempts, failure_callbacks,
                                 probes, k, invoked, result, d>>
       \/ /\ pc = "complete"
          /\ log' = log_message(log, "INFO", "message")
          /\ pc' = "done"
          /\ status' = "exit0"
          /\ UNCHANGED <<i, cicvars>>

-----------------------------------------------------------------------------
(* The run of the script *)

Init ==
    /\ debug_mode \in BOOLEAN
    /\ log = EmptyBag
    /\ cmds = <<>>
    /\ last = [rc |-> "none", ret |-> "none"]
    /\ ip_forward = FALSE
    /\ stopped = {}
    /\ hostapd_conf = "original"
    /\ pc = "start"
    /\ i = 1
    /\ status = "running"
    /\ retry_attempts = 0
    /\ failure_callbacks = <<>>
    /\ cic = "idle"
    /\ probes = 0
    /\ k = 1
    /\ invoked = <<>>
    /\ result = "none"
    /\ d = 0
    /\ password = 0
    /\ prompts = 0
    /\ reboot = ""
    /\ now = 0
    /\ calls = 0
    /\ backups = <<>>
    /\ ap = [ssid |-> <<>>, password |-> <<>>, channel |-> <<>>]
    /\ hostapd_config = <<>>

Next ==
    \/ main
    \/ install_iptables
    \/ check_internet_connection
    \/ diagnose_connection_issue
    \/ update_system_and_install_packages
    \/ ensure_ipv4_forwarding
    \/ setup_nat_routing
    \/ prompt_for_ap_config
    \/ configure_hostapd
    \/ enable_and_start_services
    \/ prompt_for_reboot

Spec == Init /\ [][Next]_vars

\* The script is one sequential process: while a statement can run, it runs
\* (every command returns, the operator answers every prompt).
SpecLive == Spec /\ WF_vars(Next)

-----------------------------------------------------------------------------
(* One call check_internet_connection(n, callbacks) on its own, with a     *)
(* fresh log: n and the callbacks are any within the bounds.               *)

CallbackLists ==
    UNION {[1..n -> Callbacks] : n \in 0..MaxCallbacks}

InitCall ==
    /\ debug_mode \in BOOLEAN
    /\ log = EmptyBag
    /\ cmds = <<>>
    /\ last = [rc |-> "none", ret |-> "none"]
    /\ ip_forward = FALSE
    /\ stopped = {}
    /\ hostapd_conf = "original"
    /\ pc = "call"
    /\ i = 1
    /\ status = "running"
    /\ retry_attempts \in 0..MaxAttempts
    /\ failure_callbacks \in CallbackLists
    /\ cic = "start"
    /\ probes = 0
    /\ k = 1
    /\ invoked = <<>>
    /\ result = "none"
    /\ d = 0
    /\ password = 0
    /\ prompts = 0
    /\ reboot = ""
    /\ now = 0
    /\ calls = 0
    /\ backups = <<>>
    /\ ap = [ssid |-> <<>>, password |-> <<>>, channel |-> <<>>]
    /\ hostapd_config = <<>>

NextCall ==
    \/ check_internet_connection
    \/ diagnose_connection_issue

SpecCall == InitCall /\ [][NextCall]_vars

-----------------------------------------------------------------------------
(* backup_file(file_path, backup_dir="/backup").  main's call is commented *)
(* out (line 194), so the function is run on its own: any number of calls *)
(* up to MaxBackups, for any of the paths below, while the clock advances.  *)

SourcePaths ==
    { <<"etc", "hostapd", "hostapd.conf">>,
      <<"etc", "dnsmasq.conf">>,
      <<"home", "pi", "hostapd.conf">> }

\* Path(file_path).name
name(path) == path[Len(path)]

\* datetime.datetime.now().strftime("%Y%m%d-%H%M%S"): the clock to the second
strftime(t) == t \div TicksPerSecond

\* Path(backup_dir) / timestamp / Path(file_path).name
backup_file_path(path, t) == [dir |-> strftime(t), name |-> name(path)]

\* mkdir raises (nothing catches it), or shutil.copy raises, or both succeed
BackupOutcomes == {"copied", "mkdir raises", "copy raises"}

backup_file ==
    /\ pc = "backup"
    /\ status = "running"
    /\ calls < MaxBackups
    /\ calls' = calls + 1
    /\ UNCHANGED <<debug_mode, hostvars, hostapd_conf, pc, i, cicvars, inputvars, now,
                   rendervars>>
    /\ \E path \in SourcePaths, outcome \in BackupOutcomes :
          CASE outcome = "copied" ->
                 /\ backups' = Append(backups, [dest |-> backup_file_path(path, now),
                                                source |-> path])
                 /\ log' = log_message(log, "INFO", "message")
                 /\ UNCHANGED status
            [] outcome = "copy raises" ->
                 /\ log' = log_message(log, "ERROR", "message")
                 /\ status' = "exit1"
                 /\ UNCHANGED backups
            [] outcome = "mkdir raises" ->
                 /\ status' = "exit1"
                 /\ UNCHANGED <<log, backups>>

\* Time passes
Tick ==
    /\ status = "running"
    /\ now < MaxClock
    /\ now' = now + 1
    /\ UNCHANGED <<debug_mode, log, hostvars, hostapd_conf, pc, i, status, cicvars,
                   inputvars, calls, backups, rendervars>>

InitBackup ==
    /\ debug_mode \in BOOLEAN
    /\ log = EmptyBag
    /\ cmds = <<>>
    /\ last = [rc |-> "none", ret |-> "none"]
    /\ ip_forward = FALSE
    /\ stopped = {}
    /\ hostapd_conf = "original"
    /\ pc = "backup"
    /\ i = 1
    /\ status = "running"
    /\ retry_attempts = 0
    /\ failure_callbacks = <<>>
    /\ cic = "idle"
    /\ probes = 0
    /\ k = 1
    /\ invoked = <<>>
    /\ result = "none"
    /\ d = 0
    /\ password = 0
    /\ prompts = 0
    /\ reboot = ""
    /\ now = 0
    /\ calls = 0
    /\ backups = <<>>
    /\ ap = [ssid |-> <<>>, password |-> <<>>, channel |-> <<>>]
    /\ hostapd_config = <<>>

NextBackup ==
    \/ backup_file
    \/ Tick

SpecBackup == InitBackup /\ [][NextBackup]_vars

-----------------------------------------------------------------------------
(* The text configure_hostapd writes.  A text is the sequence of its       *)
(* characters.  The function is run on its own for every ssid, password    *)
(* and channel of at most MaxStrLen characters: a letter, "=" and the line *)
(* break.                                                                  *)

Chars == {"a", "=", "\n"}

Strings == UNION {[1..n -> Chars] : n \in 0..MaxStrLen}

hostapd_config_text_one_line(ssid, passphrase, channel) ==
    <<"i", "n", "t", "e", "r", "f", "a", "c", "e", "=", "w", "l", "a", "n", "0", "\n">>
      \o <<"d", "r", "i", "v", "e", "r", "=", "n", "l", "8", "0", "2", "1", "1", "\n">>
      \o <<"s", "s", "i", "d", "=">> \o ssid \o <<" ">>
      \o <<"h", "w", "_", "m", "o", "d", "e", "=", "g", "\n">>
      \o <<"c", "h", "a", "n", "n", "e", "l", "=">> \o channel \o <<"\n">>
      \o <<"w", "p", "a", "=", "2", "\n">>
      \o <<"w", "p", "a", "_", "p", "a", "s", "s", "p", "h", "r", "a", "s", "e", "=">> \o passphrase \o <<"\n">>
      \o <<"w", "p", "a", "_", "k", "e", "y", "_", "m", "g", "m", "t", "=", "W", "P", "A", "-", "P", "S", "K", "\n">>
      \o <<"r", "s", "n", "_", "p", "a", "i", "r", "w", "i", "s", "e", "=", "C", "C", "M", "P">>

\* the f-string of lines 139-149
hostapd_config_text(ssid, passphrase, channel) ==
    <<"i", "n", "t", "e", "r", "f", "a", "c", "e", "=", "w", "l", "a", "n", "0", "\n">>
      \o <<"d", "r", "i", "v", "e", "r", "=", "n", "l", "8", "0", "2", "1", "1", "\n">>
      \o <<"s", "s", "i", "d", "=">> \o ssid \o <<"\n">>
      \o <<"h", "w", "_", "m", "o", "d", "e", "=", "g", "\n">>
      \o <<"c", "h", "a", "n", "n", "e", "l", "=">> \o channel \o <<"\n">>
      \o <<"w", "p", "a", "=", "2", "\n">>
      \o <<"w", "p", "a", "_", "p", "a", "s", "s", "p", "h", "r", "a", "s", "e", "=">> \o passphrase \o <<"\n">>
      \o <<"w", "p", "a", "_", "k", "e", "y", "_", "m", "g", "m", "t", "=", "W", "P", "A", "-", "P", "S", "K", "\n">>
      \o <<"r", "s", "n", "_", "p", "a", "i", "r", "w", "i", "s", "e", "=", "C", "C", "M", "P">>

render ==
    /\ pc = "render"
    /\ status = "running"
    /\ hostapd_config' = hostapd_config_text(ap.ssid, ap.password, ap.channel)
    /\ pc' = "rendered"
    /\ UNCHANGED <<debug_mode, log, hostvars, hostapd_conf, i, status, cicvars, inputvars,
                   backupvars, ap>>

InitRender ==
    /\ debug_mode \in BOOLEAN
    /\ log = EmptyBag
    /\ cmds = <<>>
    /\ last = [rc |-> "none", ret |-> "none"]
    /\ ip_forward = FALSE
    /\ stopped = {}
    /\ hostapd_conf = "original"
    /\ pc = "render"
    /\ i = 1
    /\ status = "running"
    /\ retry_attempts = 0
    /\ failure_callbacks = <<>>
    /\ cic = "idle"
    /\ probes = 0
    /\ k = 1
    /\ invoked = <<>>
    /\ result = "none"
    /\ d = 0
    /\ password = 0
    /\ prompts = 0
    /\ reboot = ""
    /\ now = 0
    /\ calls = 0
    /\ backups = <<>>
    /\ ap \in [ssid : Strings, password : Strings, channel : Strings]
    /\ hostapd_config = <<>>

NextRender == render

SpecRender == InitRender /\ [][NextRender]_vars

-----------------------------------------------------------------------------
(* Properties *)

\* This step made one run_command call
Ran == Len(cmds') = Len(cmds) + 1

\* The command line of that call
Command == cmds'[Len(cmds')]

\* C1 (as stated): one run_command call appends exactly one log entry, in
\* both debug modes: INFO and returns true when the command exits zero, ERROR
\* and returns false when it exits non-zero.
C1_one_entry_per_call ==
    [][Ran =>
        /\ last'.rc = "zero" =>
              /\ last'.ret = "true"
              /\ Size(log') = Size(log) + 1
              /\ Count(log', "INFO") = Count(log, "INFO") + 1
        /\ last'.rc = "nonzero" =>
              /\ last'.ret = "false"
              /\ Size(log') = Size(log) + 1
              /\ Count(log', "ERROR") = Count(log, "ERROR") + 1]_vars

\* C1 (amended): a call whose command exits non-zero returns false and
\* appends exactly one entry, of level ERROR; a call whose command exits zero
\* returns true and appends only INFO entries: one with debug mode off, two
\* (the message and the raw output) with debug mode on.
C1_entries_per_call ==
    [][Ran =>
        /\ last'.rc = "zero" =>
              /\ last'.ret = "true"
              /\ Size(log') = Size(log) + (IF debug_mode THEN 2 ELSE 1)
              /\ Count(log', "INFO") = Count(log, "INFO") + (IF debug_mode THEN 2 ELSE 1)
        /\ last'.rc = "nonzero" =>
              /\ last'.ret = "false"
              /\ Size(log') = Size(log) + 1
              /\ Count(log', "ERROR") = Count(log, "ERROR") + 1]_vars

\* A command has exited zero in debug mode and its output is in the log,
\* and another command has failed.
C1_witness ==
    /\ debug_mode
    /\ last.rc = "zero"
    /\ last.ret = "true"
    /\ Outputs(log) > 0
    /\ Count(log, "ERROR") > 0

\* C2: the pre-run connectivity check comes before every package
\* installation, forwarding and NAT command of the run.
C2_precheck_first ==
    \A n \in DOMAIN cmds :
        cmds[n] \in InstallCommands \cup ForwardingCommands \cup MasqueradeCommands
            => \E m \in 1..(n - 1) : cmds[m] = PING

\* C3: no MASQUERADE rule is applied before a command enabling IPv4
\* forwarding has exited zero.
C3_forwarding_before_nat ==
    [][(Ran /\ Command \in MasqueradeCommands) => ip_forward]_vars

\* The write of hostapd.conf was attempted in this step and failed
WriteFailed ==
    /\ pc = "configure_hostapd"
    /\ configure_hostapd_body[i].op = "write"
    /\ hostapd_conf' = hostapd_conf
    /\ status' # status

\* C4: when a package installation, forwarding or NAT command or the
\* configuration write fails, the run logs an ERROR entry and ends at once with
\* a non-zero status.
C4_fatal_steps_abort ==
    [][(\/ /\ Ran
           /\ Command \in InstallCommands \cup ForwardingCommands \cup MasqueradeCommands
           /\ last'.rc # "zero"
        \/ WriteFailed)
         => /\ status' = "exit1"
            /\ Count(log', "ERROR") > Count(log, "ERROR")]_vars

\* C5: when the restart of hostapd after the configuration write fails, the
\* run logs an ERROR entry and ends at once with a non-zero status, before the
\* post-run connectivity check.
C5_restart_failure_aborts ==
    [][(Ran /\ Command = RESTART_HOSTAPD /\ last'.rc # "zero")
         => /\ status' = "exit1"
            /\ Count(log', "ERROR") > Count(log, "ERROR")]_vars

\* C6: when enabling or starting hostapd or dnsmasq fails, the run ends at
\* once with a non-zero status, and a run that has ended does nothing more.
C6_enable_start_failure_aborts ==
    [][/\ (Ran /\ Command \in EnableStartCommands /\ last'.rc # "zero")
            => status' = "exit1"
       /\ status # "running" => UNCHANGED vars]_vars

\* The start of hostapd has failed and the run has ended there.
C6_witness ==
    /\ status = "exit1"
    /\ pc = "enable_and_start_services"
    /\ cmds # <<>>
    /\ cmds[Len(cmds)] = "systemctl start hostapd"
    /\ last.rc = "nonzero"

\* The call is over because a probe raised
ProbeRaised == cic = "returned" /\ result = "raised" /\ invoked = <<>>

\* The call is over and every probe has returned false
Exhausted == cic = "returned" /\ result # "true" /\ ~ProbeRaised

\* C7: the call runs at most retry_attempts probes; after the first
\* successful probe it returns true with no callback invoked; when every probe
\* has failed it returns false with every callback invoked once, in list order.
C7_probe_contract ==
    /\ probes <= retry_attempts
    /\ (cic = "returned" /\ result = "true") =>
          /\ invoked = <<>>
          /\ last.rc = "zero"
          /\ cmds[Len(cmds)] = PING
    /\ Exhausted =>
          /\ probes = retry_attempts
          /\ result = "false"
          /\ invoked = [m \in 1..Len(failure_callbacks) |-> m]

\* C8: a callback that raises does not keep the later callbacks from being
\* invoked, and the call still returns false.
C8_callbacks_independent ==
    (/\ cic = "returned"
     /\ \E j \in DOMAIN invoked : failure_callbacks[invoked[j]] = "raises")
        => /\ result = "false"
           /\ \A m \in DOMAIN failure_callbacks : \E j \in DOMAIN invoked : invoked[j] = m

\* check_internet_connection(3, [diagnose_connection_issue]) has just run its
\* first probe, which exited zero
FirstProbeSucceeded ==
    /\ retry_attempts = 3
    /\ failure_callbacks = <<DIAGNOSE>>
    /\ probes = 1
    /\ cmds = <<PING>>
    /\ last.rc = "zero"

\* C9 (as stated): when the first probe succeeds,
\* check_internet_connection(3, [diag]) returns true, never invokes diag and
\* has produced exactly one log entry.
C9_one_entry ==
    FirstProbeSucceeded =>
        /\ cic = "returned"
        /\ result = "true"
        /\ invoked = <<>>
        /\ Size(log) = 1

\* C9 (amended): when the first probe succeeds,
\* check_internet_connection(3, [diag]) returns true, never invokes diag and
\* has produced exactly two log entries with debug mode off ("Checking
\* internet connection..." and the probe's success message) and three with
\* debug mode on (the probe's output as well), all of level INFO.
C9_entries ==
    FirstProbeSucceeded =>
        /\ cic = "returned"
        /\ result = "true"
        /\ invoked = <<>>
        /\ Size(log) = (IF debug_mode THEN 3 ELSE 2)
        /\ Count(log, "INFO") = Size(log)

\* The call with 3 attempts and diag has returned true after one probe.
C9_witness ==
    /\ FirstProbeSucceeded
    /\ cic = "returned"
    /\ result = "true"
    /\ ~debug_mode

\* C10: the run never ends inside the pre-run or the post-run connectivity
\* check, whatever the probes and the diagnostic command do.
C10_checks_never_abort ==
    status = "exit1" => pc \notin {"precheck", "postcheck"}


\* C11: run_command never raises: whatever check_output does, the call
\* returns true or false, and a command that did not exit zero gives false and
\* one more ERROR entry.
C11_run_command_never_raises ==
    [][Ran =>
        /\ last'.ret \in {"true", "false"}
        /\ last'.rc # "zero" =>
              /\ last'.ret = "false"
              /\ Count(log', "ERROR") > Count(log, "ERROR")]_vars

\* C12: prompt_for_ap_config returns only with a password of at least 8
\* characters, and a shorter input does nothing but ask again: the run goes on
\* in the function, nothing is logged and nothing is executed.
C12_password_length ==
    [][/\ (pc = "prompt_for_ap_config" /\ pc' # pc) => password' >= 8
       /\ (pc = "prompt_for_ap_config" /\ i = 2 /\ password < 8) =>
              /\ pc' = pc
              /\ status' = "running"
              /\ UNCHANGED <<log, cmds>>]_vars

\* The operator got the password wrong as often as the bound allows, and the
\* function has returned.
C12_witness ==
    /\ pc = "configure_hostapd"
    /\ prompts = MaxPrompts + 1
    /\ password >= 8

\* The answers that are "yes" or "y" whatever the case
Yes == {"yes", "YES", "Yes", "yEs", "y", "Y"}

\* C13: the reboot command has been executed only if the operator answered
\* the reboot prompt with "yes" or "y" in any case.
C13_reboot_only_when_confirmed ==
    (\E n \in DOMAIN cmds : cmds[n] = REBOOT) => reboot \in Yes

\* The operator answered "YES" and the reboot command was run.
C13_witness ==
    /\ reboot = "YES"
    /\ cmds # <<>>
    /\ cmds[Len(cmds)] = REBOOT

\* The command sudo runs: the script runs as root, where "sudo X" is X
without_sudo(command) ==
    CASE command = "sudo apt-get install iptables-persistent" ->
             "apt-get install iptables-persistent"
      [] command = "sudo iptables -t nat -A POSTROUTING -o eth0 -j MASQUERADE" ->
             "iptables -t nat -A POSTROUTING -o eth0 -j MASQUERADE"
      [] command = "sudo sh -c 'iptables-save > /etc/iptables.ipv4.nat'" ->
             "sh -c 'iptables-save > /etc/iptables.ipv4.nat'"
      [] command = "sudo sed -i '/net.ipv4.ip_forward=1/s/^#//g' /etc/sysctl.conf" ->
             "sed -i '/net.ipv4.ip_forward=1/s/^#//g' /etc/sysctl.conf"
      [] command = "sudo sysctl -w net.ipv4.ip_forward=1" ->
             "sysctl -w net.ipv4.ip_forward=1"
      [] OTHER -> command

\* C17: no command but the reachability probe is executed twice in a run.
C17_no_command_twice ==
    \A m, n \in DOMAIN cmds :
        (m < n /\ without_sudo(cmds[m]) = without_sudo(cmds[n])) => cmds[n] = PING

\* This step wrote hostapd.conf
Wrote == hostapd_conf = "original" /\ hostapd_conf' = "rendered"

\* C18: hostapd.conf is written while hostapd and dnsmasq are stopped (their
\* stop commands have exited zero), and a service is started or restarted only
\* once the file is written.
C18_stopped_while_written ==
    [][/\ Wrote => stopped = {"hostapd", "dnsmasq"}
       /\ (Ran /\ Command \in {"systemctl start hostapd", "systemctl start dnsmasq",
                               RESTART_HOSTAPD})
              => hostapd_conf = "rendered"]_vars

\* C19: a command's raw output is in the log only in debug mode, and only
\* in entries of level DEBUG.
C19_output_at_debug ==
    /\ Outputs(log) > 0 => debug_mode
    /\ Outputs(log) = CopiesIn([level |-> "DEBUG", kind |-> "output"], log)

\* C20: every run ends, at DONE or by an abort.
C20_terminates == <>(status # "running")

\* A run has reached DONE after the operator used up the wrong passwords and
\* the post-run check used up its attempts.
C20_witness ==
    /\ status = "exit0"
    /\ pc = "done"
    /\ prompts = MaxPrompts + 1
    /\ probes = PostcheckAttempts


-----------------------------------------------------------------------------
\* C14: no two calls of backup_file write the same destination path.
C14_backups_distinct ==
    \A m, n \in DOMAIN backups : m # n => backups[m].dest # backups[n].dest

\* This step was a backup_file call that copied nothing
BackupFailed == calls' = calls + 1 /\ backups' = backups

\* C15: a backup or a configuration write that cannot complete appends an
\* ERROR entry and ends the run with a non-zero status.
C15_io_failure_logged ==
    [][(BackupFailed \/ WriteFailed)
         => /\ status' = "exit1"
            /\ Count(log', "ERROR") = Count(log, "ERROR") + 1]_vars


-----------------------------------------------------------------------------
(* Reading a configuration text back: one pair per line, a line split at   *)
(* its first "=", a later pair replacing an earlier one with the same key. *)

Has(t, c) == \E j \in DOMAIN t : t[j] = c

First(t, c) == CHOOSE j \in DOMAIN t : t[j] = c /\ \A m \in 1..(j - 1) : t[m] # c

RECURSIVE lines_of(_)
lines_of(t) ==
    IF ~Has(t, "\n") THEN <<t>>
    ELSE <<SubSeq(t, 1, First(t, "\n") - 1)>>
           \o lines_of(SubSeq(t, First(t, "\n") + 1, Len(t)))

key_of(line) == SubSeq(line, 1, First(line, "=") - 1)

value_of(line) == SubSeq(line, First(line, "=") + 1, Len(line))

lookup(text, key) ==
    LET ls == lines_of(text)
        at == {n \in DOMAIN ls : Has(ls[n], "=") /\ key_of(ls[n]) = key}
    IN  IF at = {} THEN [found |-> FALSE, value |-> <<>>]
        ELSE [found |-> TRUE,
              value |-> value_of(ls[CHOOSE n \in at : \A m \in at : m <= n])]

KEY_SSID == <<"s", "s", "i", "d">>
KEY_CHANNEL == <<"c", "h", "a", "n", "n", "e", "l">>
KEY_PASSPHRASE == <<"w", "p", "a", "_", "p", "a", "s", "s", "p", "h", "r", "a", "s", "e">>

Recovered ==
    /\ lookup(hostapd_config, KEY_SSID) = [found |-> TRUE, value |-> ap.ssid]
    /\ lookup(hostapd_config, KEY_CHANNEL) = [found |-> TRUE, value |-> ap.channel]
    /\ lookup(hostapd_config, KEY_PASSPHRASE) = [found |-> TRUE, value |-> ap.password]

\* C16 (as stated): for every ssid, password and channel, reading the
\* rendered text back as key=value pairs gives exactly the ssid, the channel
\* and the password it was rendered from.
C16_round_trip ==
    pc = "rendered" => Recovered

NoLineBreak(t) == ~Has(t, "\n")

\* C16 (amended): for every ssid, password and channel that contain no line
\* break, reading the rendered text back as key=value pairs gives exactly the
\* ssid, the channel and the password it was rendered from.
C16_round_trip_of_lines ==
    (/\ pc = "rendered"
     /\ NoLineBreak(ap.ssid)
     /\ NoLineBreak(ap.password)
     /\ NoLineBreak(ap.channel)) => Recovered

\* A text with "=" inside its values has been rendered and reads back.
C16_witness ==
    /\ pc = "rendered"
    /\ ap.ssid = <<"a", "=">>
    /\ ap.password = <<"=", "a">>
    /\ ap.channel = <<"a">>
    /\ Recovered

====
